---- MODULE Spec2Model ----
(***************************************************************************)
(* Model of GitHubDocsGenerator (src/src/lib/github-docs-generator.ts):    *)
(* the run() pipeline over a cloned working copy - documentation branch    *)
(* set-up, merge from the main branch, change detection, planning,         *)
(* summarization, index update, commit and push.                           *)
(*                                                                         *)
(* A path is a record [dir, name, ext]; dir is the sequence of directory   *)
(* segments, so that path.dirname, path.parse(..).name, path.extname and   *)
(* startsWith('docs/') are computed, not assumed.                          *)
(*                                                                         *)
(* A file's content is one of                                              *)
(*   "absent"  the path does not exist                                     *)
(*   "base"    the version main and the documentation branch share         *)
(*   "main"    the version of origin/main                                  *)
(*   "docs"    the version committed on the documentation branch           *)
(*   "mixed"   both versions with git's conflict markers                   *)
(*   "gen"     documentation text written in the current run               *)
(*                                                                         *)
(* An error message is the set of the substrings the code tests for that   *)
(* it contains.                                                            *)
(***************************************************************************)
EXTENDS Naturals, Sequences, FiniteSets, TLC

\* ---------------------------------------------------------------- bounds
\* createDocumentationBranch calls a caller makes on one working copy
MaxCalls == 2
\* run() calls made one after the other against the same remote
MaxRuns == 2

\* ----------------------------------------------------------------- paths
A == [dir |-> <<"src">>, name |-> "a", ext |-> ".ts"]
B == [dir |-> <<"src">>, name |-> "b", ext |-> ".ts"]
C == [dir |-> <<"lib">>, name |-> "c", ext |-> ".ts"]
README == [dir |-> <<>>, name |-> "README", ext |-> ".md"]
INDEX == [dir |-> <<>>, name |-> "DOCUMENTATION_INDEX", ext |-> ".md"]
\* a file under docs/ that is no markdown file
LOGO == [dir |-> <<"docs">>, name |-> "logo", ext |-> ".png"]

\* saveDocumentation / documentationExists: docs/<dirname>/<name>.md
DocFile(p) == [dir |-> <<"docs">> \o p.dir, name |-> p.name, ext |-> ".md"]

SrcPaths == {A, B, C}
DocPaths == {DocFile(p) : p \in SrcPaths}
Paths == SrcPaths \cup DocPaths \cup {README, INDEX, LOGO}

Content == {"absent", "base", "main", "docs", "mixed", "gen"}
DiffStatus == {"none", "A", "M", "D"}

supportedExtensions ==
  {".js", ".jsx", ".ts", ".tsx", ".py", ".java", ".cpp", ".c", ".cc", ".cxx",
   ".go", ".rs", ".php", ".rb", ".cs", ".swift", ".kt", ".scala", ".vue", ".svelte"}

isSupportedFile(p) == p.ext \in supportedExtensions

\* conflictedFile.startsWith('docs/') || conflictedFile === 'DOCUMENTATION_INDEX.md'
IsDocOutput(p) == (Len(p.dir) >= 1 /\ p.dir[1] = "docs") \/ p = INDEX

VARIABLES
  pc,          \* position of the caller / of run()
  runs,        \* run() calls started so far
  calls,       \* createDocumentationBranch calls on this working copy
  remote,      \* origin: [branch, tree, last]
  upstream,    \* name-status of origin/main against the documentation
               \* branch's merge base, per path
  repoDir,     \* temp-repos/<name> exists
  git,         \* the working copy: [cur, local, base, ahead, merged, wt,
               \*   staged, unmerged, dirty, mergeHead]
  branchInfo,  \* what createDocumentationBranch returned
  lastDocsCommit, \* what getLastDocumentationCommit returned
  conflicted,  \* the paths git merge left in conflict (status.conflicted)
  snap,        \* the working copy when the previous call returned
  plan,        \* what findSourceFiles returned
  documentedFiles, failedFiles,
  ops,         \* how the clone ended, and the git operations of the current
               \* commitAndPush call
  retryError,  \* the error caught at line 1053
  err,         \* message of the error thrown to the caller, {} if none
  options,     \* [overwrite, targetPath]: DocumentationOptions.overwrite and
               \* RepoConfig.targetPath (directory segments, <<>> if not given)
  prior,       \* what the previous run() did: [committed, failed]
  log,         \* the "[i/n] <action>: <path>" lines of the loop at line 1237
  ix,          \* DOCUMENTATION_INDEX.md as text, and the last generateIndex
               \* call on it: [file, calls, documented, before, merged]
  tempRepos    \* process.cwd()/temp-repos and the generators that work in
               \* it at once: [exists, dirs, gen]

vars == <<pc, runs, calls, remote, upstream, repoDir, git, branchInfo,
          lastDocsCommit, conflicted, snap, plan, documentedFiles,
          failedFiles, ops, retryError, err, options, prior, log, ix, tempRepos>>

NoTree == [p \in Paths |-> "absent"]
NoGit == [cur |-> "none", local |-> FALSE, base |-> "none", ahead |-> <<>>,
          merged |-> FALSE, wt |-> NoTree, staged |-> {}, unmerged |-> {},
          dirty |-> {}, mergeHead |-> FALSE]
NoInfo == [isExistingBranch |-> FALSE, hasExistingDocs |-> FALSE,
           changedFiles |-> {}, newFiles |-> {}, needsUpdate |-> FALSE]
NoPlan == [made |-> FALSE, sourceFiles |-> <<>>, existingDocs |-> <<>>,
           isIncremental |-> FALSE]
NoOps == [clone |-> "ok", called |-> FALSE, adds |-> {}, commits |-> <<>>, pushes |-> <<>>,
          pulls |-> <<>>, clean |-> FALSE]

Present(c) == c # "absent"

\* no index file, generateIndex not called yet
NoFile == [exists |-> FALSE, lines |-> <<>>]
NoIndex == [file |-> NoFile, calls |-> 0, documented |-> <<>>,
            before |-> <<>>, merged |-> <<>>,
            doc |-> NoFile, read |-> FALSE, overview |-> ""]

\* ---- the temp-repos directory shared by the generators of a process ----
MaxGenerators == 2
Generators == 1..MaxGenerators
\* extractRepoName(repoConfig.url) of the repositories asked for
RepoNames == {"app", "site"}
\* a generator: not created, or [pc, repoName, force] where force is the
\* argument of its last cleanup call (run() passes true, the route none)
NoGenerator == [pc |-> "none", repoName |-> "", force |-> FALSE]
\* dirs[n] is the generator whose clone temp-repos/n holds, 0 if there is
\* no such directory
NoTempRepos ==
  [exists |-> FALSE, dirs |-> [n \in RepoNames |-> 0],
   gen |-> [g \in Generators |-> NoGenerator]]

\* RepoConfig.targetPath: not given, a directory of the repository, a
\* directory the repository does not have
TargetPaths == {<<>>, <<"src">>, <<"nowhere">>}

\* -------------------------------------------------------- initial states
\* origin before the first run.  Without a documentation branch the tree is
\* main's; with one, the tree is the branch's and upstream is what main
\* changed since the branch last took main in.  last: which commit
\* getLastDocumentationCommit finds on the branch ("marker": one whose
\* message holds the generator's signature; "docsdir": only one that
\* touched docs/; "none").
InitRemotes ==
  { [branch |-> FALSE, last |-> "none",
     tree |-> [p \in Paths |->
                 CASE p \in {A, B, C, README} -> "base"
                   [] p = DocFile(A) -> d
                   [] OTHER -> "absent"]] :
     d \in {"absent", "base"} }
  \cup
  { [branch |-> TRUE, last |-> l,
     tree |-> [p \in Paths |->
                 CASE p = A -> "base"
                   [] p = README -> r
                   [] p = DocFile(A) -> d
                   [] p = INDEX -> i
                   [] p = LOGO -> g
                   [] OTHER -> "absent"]] :
     r \in {"base", "docs"}, d \in {"absent", "docs"}, i \in {"absent", "docs"},
     g \in {"absent", "docs"}, l \in {"none", "marker", "docsdir"} }

RemoteOk(r) ==
  r.branch =>
    /\ (r.tree[DocFile(A)] = "docs" => r.last # "none")
    /\ (r.last = "docsdir" => r.tree[DocFile(A)] = "docs")
    /\ (r.tree[LOGO] = "docs" => r.tree[DocFile(A)] = "absent")

InitUpstreams(r) ==
  IF ~r.branch THEN { [p \in Paths |-> "none"] }
  ELSE { u \in { [p \in Paths |->
                   CASE p = A -> a
                     [] p = B -> b
                     [] p = C -> c
                     [] p = README -> m
                     [] p = DocFile(A) -> d
                     [] OTHER -> "none"] :
                a \in {"none", "M", "D"}, b \in {"none", "A"}, c \in {"none", "A"},
                m \in {"none", "M"}, d \in {"none", "M"} } :
           u[C] = "A" => (u[B] = "none" /\ u[README] = "none" /\ u[DocFile(A)] = "none") }

\* no run() has been called
Idle ==
  /\ pc = "idle"
  /\ runs = 0
  /\ calls = 0
  /\ repoDir = FALSE
  /\ git = NoGit
  /\ branchInfo = NoInfo
  /\ lastDocsCommit = "none"
  /\ conflicted = {}
  /\ snap = NoGit
  /\ plan = NoPlan
  /\ documentedFiles = <<>>
  /\ failedFiles = <<>>
  /\ ops = NoOps
  /\ retryError = {}
  /\ err = {}
  /\ prior = [committed |-> FALSE, failed |-> {}]
  /\ log = <<>>
  /\ tempRepos = NoTempRepos

\* the text of the index file is followed in SpecIndex only
Init ==
  /\ Idle
  /\ remote \in {r \in InitRemotes : RemoteOk(r)}
  /\ upstream \in InitUpstreams(remote)
  /\ options \in [overwrite : BOOLEAN, targetPath : TargetPaths]
  /\ ix = NoIndex

\* the tree of origin/main
MainTree ==
  [p \in Paths |->
     IF ~remote.branch THEN remote.tree[p]
     ELSE CASE upstream[p] \in {"A", "M"} -> "main"
            [] upstream[p] = "D" -> "absent"
            [] OTHER -> IF IsDocOutput(p) THEN "absent" ELSE
                        IF Present(remote.tree[p]) THEN "base" ELSE "absent"]

\* ------------------------------------------------------- error messages
\* transport failure of fetch / pull / push (no substring the code tests)
NetworkError == {"network"}
\* "! [rejected] ... (non-fast-forward)"
NonFastForward == {"rejected", "non-fast-forward"}
\* "remote: Permission ... denied ... The requested URL returned error: 403"
PermissionDenied == {"403", "denied"}
\* "CONFLICT (content): Merge conflict in ..."
ContentConflict == {"conflict", "Merge conflict in"}
\* "Committing is not possible because you have unmerged files ...
\*  Exiting because of an unresolved conflict."
UnmergedFiles == {"unmerged", "conflict"}
\* "error: you need to resolve your current index first"
NeedsResolve == {"resolve your current index"}
\* "! [remote rejected] ... (pre-receive hook declined)" with a hook text
\* that speaks of a conflict
HookDeclined == {"rejected", "hook declined", "conflict"}
\* git clone: "remote: Repository not found."
NotFound == {"Repository not found", "not found"}
\* git clone: "The requested URL returned error: 403"
Forbidden == {"403", "The requested URL returned error"}
\* validateGitHubToken, status 401 (lines 214-217)
InvalidToken == {"Invalid GitHub token"}
\* validateGitHubToken, status 403 with 'rate limit' in the body (line 221)
RateLimited == {"rate limit exceeded"}
\* validateGitHubToken, status 404 (lines 230-237)
AccessDenied == {"Repository access denied", "denied", "Repository name is incorrect"}

\* ------------------------------------------------------------ run: clone
\* how validateGitHubToken and git clone may end, and the error of each
CloneOutcomes == {"ok", "invalidToken", "rateLimited", "accessDenied",
                  "notFound", "forbidden", "network"}
CloneError(o) ==
  CASE o = "invalidToken" -> InvalidToken
    [] o = "rateLimited" -> RateLimited
    [] o = "accessDenied" -> AccessDenied
    [] o = "notFound" -> NotFound
    [] o = "forbidden" -> Forbidden
    [] OTHER -> NetworkError

\* lines 317-342: the message of the error cloneRepository throws for a
\* caught error with message e
cloneErrorMessage(e) ==
  IF "403" \in e \/ "denied" \in e
  THEN {"GitHub authentication failed", "permissions"}
  ELSE IF "404" \in e \/ "not found" \in e
  THEN {"Repository not found or you don't have access", "not found"}
  ELSE e

\* run() line 1180: cloneRepository.  A new working copy of the default
\* branch; a failure is thrown into run's catch.
cloneRepository ==
  /\ pc \in {"idle", "returned", "done", "failed"}
  /\ runs < MaxRuns
  /\ runs' = runs + 1
  /\ calls' = 0
  /\ branchInfo' = NoInfo
  /\ lastDocsCommit' = "none"
  /\ conflicted' = {}
  /\ snap' = NoGit
  /\ plan' = NoPlan
  /\ documentedFiles' = <<>>
  /\ failedFiles' = <<>>
  /\ retryError' = {}
  /\ prior' = [committed |-> pc = "done" /\ ops.pushes # <<>>,
               failed |-> {failedFiles[i] : i \in 1..Len(failedFiles)}]
  /\ log' = <<>>
  /\ \E o \in CloneOutcomes :
       /\ ops' = [NoOps EXCEPT !.clone = o]
       /\ IF o = "ok"
          THEN /\ repoDir' = TRUE
               /\ git' = [NoGit EXCEPT !.cur = "main", !.wt = MainTree]
               /\ err' = {}
               /\ pc' = "branch"
          ELSE /\ repoDir' = FALSE
               /\ git' = NoGit
               /\ err' = cloneErrorMessage(CloneError(o))
               /\ pc' = "catch"
  /\ UNCHANGED <<remote, upstream, options, ix, tempRepos>>

\* --------------------------------------------- createDocumentationBranch
\* git checkout <branch>: refused while the index holds unmerged entries
CanCheckout(g) == g.unmerged = {}
\* git checkout -B <branch> origin/<branch>: the local branch is reset
Checkout_reset(g) ==
  [g EXCEPT !.cur = "docs", !.ahead = <<>>, !.merged = FALSE, !.wt = remote.tree,
            !.staged = {}]
Checkout(g) == [g EXCEPT !.cur = "docs"]
\* git pull origin <branch> on a branch that already holds the remote tip
PullTip(g) == [g EXCEPT !.base = "remote"]
\* git checkout -b <branch> origin/<branch>
CheckoutTracking(g) ==
  [g EXCEPT !.cur = "docs", !.local = TRUE, !.base = "remote", !.ahead = <<>>,
            !.merged = FALSE, !.wt = remote.tree]
\* git branch <branch>: the branch is created and not switched to
CheckoutLocalBranch_noSwitch(g) ==
  [g EXCEPT !.local = TRUE, !.base = "main", !.ahead = <<>>, !.merged = TRUE]

\* git checkout -b <branch> from the current tip
CheckoutLocalBranch(g) ==
  [g EXCEPT !.cur = "docs", !.local = TRUE, !.base = "main", !.ahead = <<>>,
            !.merged = TRUE]

\* lines 369-385 and 404-420: fetch, look the branch up, check it out
createDocumentationBranch ==
  /\ pc \in {"branch", "branched"}
  /\ pc = "branched" => calls < MaxCalls
  /\ calls' = calls + 1
  /\ snap' = git
  /\ \E fetched \in BOOLEAN :
       LET localBranchExists == git.local
           remoteBranchExists == remote.branch
           isExistingBranch == localBranchExists \/ remoteBranchExists
           info == [NoInfo EXCEPT !.isExistingBranch = isExistingBranch,
                                  !.needsUpdate = TRUE]
       IN
       IF ~fetched
       THEN /\ err' = NetworkError /\ pc' = "catch"
            /\ UNCHANGED <<git, branchInfo>>
       ELSE IF remoteBranchExists
       THEN IF localBranchExists
            THEN IF CanCheckout(git)
                 THEN /\ git' = PullTip(Checkout(git))
                      /\ pc' = "hasDocs"
                      /\ branchInfo' = info
                      /\ err' = {}
                 ELSE /\ err' = NeedsResolve /\ pc' = "catch"
                      /\ UNCHANGED <<git, branchInfo>>
            ELSE /\ git' = CheckoutTracking(git)
                 /\ pc' = "hasDocs"
                 /\ branchInfo' = info
                 /\ err' = {}
       ELSE IF localBranchExists
       THEN IF CanCheckout(git)
            THEN /\ git' = Checkout(git)
                 /\ pc' = "branched"
                 /\ branchInfo' = info
                 /\ err' = {}
            ELSE /\ err' = NeedsResolve /\ pc' = "catch"
                 /\ UNCHANGED <<git, branchInfo>>
       ELSE /\ git' = CheckoutLocalBranch(git)
            /\ pc' = "branched"
            /\ branchInfo' = info
            /\ err' = {}
  /\ UNCHANGED <<tempRepos, ix, options, prior, log, runs, remote, upstream, repoDir, lastDocsCommit, conflicted,
                 plan, documentedFiles, failedFiles, ops, retryError>>

\* any file under docs/ counts, and the index beside it
hasExistingDocumentation_anyFile(wt) ==
  (\E p \in Paths : Len(p.dir) >= 1 /\ p.dir[1] = "docs" /\ Present(wt[p]))
  \/ Present(wt[INDEX])

\* lines 427-446: docs/ exists -> some .md under it; else the index exists
hasExistingDocumentation(wt) ==
  LET docsDir == {p \in Paths : Len(p.dir) >= 1 /\ p.dir[1] = "docs" /\ Present(wt[p])}
      hasDocs == docsDir # {}
      hasIndex == Present(wt[INDEX])
  IN IF hasDocs THEN {p \in docsDir : p.ext = ".md"} # {} ELSE hasIndex

\* lines 387-403: the branch came from the remote; does it hold docs?
createDocumentationBranch_hasDocs ==
  /\ pc = "hasDocs"
  /\ IF hasExistingDocumentation(git.wt)
     THEN pc' = "changes" /\ UNCHANGED branchInfo
     ELSE pc' = "branched" /\ UNCHANGED branchInfo
  /\ UNCHANGED <<tempRepos, ix, options, prior, log, runs, calls, remote, upstream, repoDir, git, lastDocsCommit,
                 conflicted, snap, plan, documentedFiles, failedFiles, ops,
                 retryError, err>>

\* ---------------------------------------------------- mergeFromMainBranch
\* the documentation commit under another subject line
commitMessage_reworded(c) ==
  CASE c = "doc" -> {"Update docs", "Generated with AI-powered documentation generator"}
    [] c = "merge" -> {"Merge latest changes from", "Auto-merge for documentation update"}
    [] c = "resolve" -> {"Resolve merge conflicts", "documentation update"}
    [] OTHER -> {"Merge branch"}

\* the message of a commit of the branch, as the phrases it holds: the
\* documentation commit (lines 1017-1021), the merge of main (line 509),
\* the conflict resolution (line 1063), the merge commit of git pull
commitMessage(c) ==
  CASE c = "doc" -> {"Generate documentation", "using AI",
                     "Generated with AI-powered documentation generator"}
    [] c = "merge" -> {"Merge latest changes from", "Auto-merge for documentation update"}
    [] c = "resolve" -> {"Resolve merge conflicts", "documentation update"}
    [] OTHER -> {"Merge branch"}
\* line 535: --grep of the generator's signature
grepMarker == "Generate documentation"

\* lines 532-551: the newest commit with the generator's signature in its
\* message, else the newest commit that touched docs/, else null
getLastDocumentationCommit(g) ==
  LET history == IF g.base = "remote" THEN {remote.last} ELSE {}
      commits == {g.ahead[k] : k \in 1..Len(g.ahead)}
  IN IF "marker" \in history \/ \E c \in commits : grepMarker \in commitMessage(c)
     THEN "marker"
     ELSE IF "docsdir" \in history \/ "doc" \in commits THEN "docsdir"
     ELSE "none"

\* every modified or deleted path taken, supported or not
changedOf_unfiltered(diff) == {p \in Paths : diff[p] \in {"M", "D"}}

\* lines 475-486: one name-status line per path the diff touched
changedOf(diff) == {p \in Paths : isSupportedFile(p) /\ diff[p] \in {"M", "D"}}
newOf(diff) == {p \in Paths : isSupportedFile(p) /\ diff[p] = "A"}

\* lines 456-489: last documentation commit, fetch of main, name-status
\* diff lastDocsCommit...origin/main
mergeFromMainBranch_changes ==
  /\ pc = "changes"
  /\ \E fetched \in BOOLEAN :
       IF ~fetched
       THEN /\ err' = NetworkError /\ pc' = "catch"
            /\ UNCHANGED <<lastDocsCommit, branchInfo>>
       ELSE LET last == getLastDocumentationCommit(git) IN
            /\ lastDocsCommit' = last
            /\ branchInfo' =
                 [branchInfo EXCEPT
                    !.changedFiles = IF last # "none" THEN changedOf(upstream) ELSE {},
                    !.newFiles = IF last # "none" THEN newOf(upstream) ELSE {}]
            /\ pc' = "merge"
            /\ err' = {}
  /\ UNCHANGED <<tempRepos, ix, options, prior, log, runs, calls, remote, upstream, repoDir, git, conflicted, snap,
                 plan, documentedFiles, failedFiles, ops, retryError>>

\* git merge origin/main, path by path: what the working tree holds, and
\* whether the path merged cleanly
MergeContent(c, u) ==
  CASE u = "none" -> c
    [] u = "A" -> IF c = "absent" THEN "main" ELSE "mixed"
    [] u = "M" -> IF c = "base" THEN "main" ELSE IF c = "absent" THEN "main" ELSE "mixed"
    [] u = "D" -> IF c = "base" THEN "absent" ELSE c
MergeConflict(c, u) ==
  CASE u = "none" -> FALSE
    [] u = "A" -> c # "absent"
    [] u = "M" -> c # "base"
    [] u = "D" -> c \notin {"base", "absent"}

\* line 503: which conflicted files the code stages
AutoResolved(K) == {p \in K : IsDocOutput(p)}

\* git commit: refused while unmerged entries remain.  Without a merge in
\* progress a commit with nothing staged records nothing; with one
\* (MERGE_HEAD set) the commit concludes the merge.
Commit(g, label) ==
  IF g.unmerged # {} \/ (g.staged = {} /\ ~g.mergeHead) THEN g
  ELSE [g EXCEPT !.ahead = Append(@, label), !.staged = {},
                 !.merged = @ \/ g.mergeHead, !.mergeHead = FALSE]
\* git commit concluding a merge (MERGE_HEAD set): records the merge even
\* when the tree did not change
CommitMerge(g, label) ==
  IF g.unmerged # {} THEN g
  ELSE [g EXCEPT !.ahead = Append(@, label), !.staged = {}, !.merged = TRUE,
                 !.mergeHead = FALSE]

\* lines 491-524: merge --no-ff --no-commit, stage the conflicted doc
\* files, commit; every failure of these is caught at line 512
mergeFromMainBranch_merge ==
  /\ pc = "merge"
  /\ LET upToDate == git.merged \/ \A p \in Paths : upstream[p] = "none"
         K == {p \in Paths : MergeConflict(git.wt[p], upstream[p])}
         touched == {p \in Paths : upstream[p] # "none" /\ p \notin K
                                   /\ MergeContent(git.wt[p], upstream[p]) # git.wt[p]}
         merging == [git EXCEPT
                       !.wt = [p \in Paths |-> MergeContent(git.wt[p], upstream[p])],
                       !.staged = touched, !.unmerged = K, !.mergeHead = TRUE]
     IN
     IF upToDate
     THEN /\ git' = [git EXCEPT !.merged = TRUE]
          /\ conflicted' = {}
     ELSE \E mergeThrows \in BOOLEAN :
          /\ conflicted' = K
          /\ IF K = {}
             THEN git' = CommitMerge(merging, "merge")
             ELSE IF mergeThrows
             THEN git' = merging
             ELSE LET added == [merging EXCEPT
                                  !.unmerged = K \ AutoResolved(K),
                                  !.staged = @ \cup AutoResolved(K)]
                  IN git' = CommitMerge(added, "merge")
  /\ branchInfo' =
       [branchInfo EXCEPT
          !.isExistingBranch = TRUE,
          !.hasExistingDocs = TRUE,
          !.needsUpdate = branchInfo.changedFiles # {} \/ branchInfo.newFiles # {}]
  /\ pc' = "branched"
  /\ UNCHANGED <<tempRepos, ix, options, prior, log, runs, calls, remote, upstream, repoDir, lastDocsCommit, snap,
                 plan, documentedFiles, failedFiles, ops, retryError, err>>

\* ------------------------------------------------------------------- run
\* the check left out
isUpToDate_never(info) == FALSE
\* line 1187: branchInfo.hasExistingDocs && !branchInfo.needsUpdate
isUpToDate(info) == info.hasExistingDocs /\ ~info.needsUpdate

\* lines 1186-1192: documentation exists and nothing changed: return
run_upToDate ==
  /\ pc = "branched"
  /\ pc' = IF isUpToDate(branchInfo) THEN "returned" ELSE "plan"
  /\ UNCHANGED <<tempRepos, ix, options, prior, log, runs, calls, remote, upstream, repoDir, git, branchInfo,
                 lastDocsCommit, conflicted, snap, plan, documentedFiles,
                 failedFiles, ops, retryError, err>>

\* constructor lines 43-74, as glob's ignore list applies them: a pattern
\* without a slash is matched against the whole relative path, so it can
\* only exclude an entry of the repository root
ignoredRootExt == {".md", ".json", ".yml", ".yaml", ".xml", ".txt", ".lock",
                   ".pyc", ".log", ".tmp"}
excluded(p) == p.dir = <<>> /\ p.ext \in ignoredRootExt

\* no documentation file is ever found
documentationExists_never(wt, p) == FALSE

\* lines 645-652
documentationExists(wt, p) == Present(wt[DocFile(p)])

\* Array.prototype.sort on the path strings
Rank(p) ==
  CASE p = INDEX -> 1
    [] p = README -> 2
    [] p = DocFile(C) -> 3
    [] p = DocFile(A) -> 4
    [] p = DocFile(B) -> 5
    [] p = C -> 6
    [] p = A -> 7
    [] p = B -> 8
\* the paths in descending order
SortPaths_reversed(S) ==
  [k \in 1..Cardinality(S) |->
     CHOOSE x \in S : Cardinality({y \in S : Rank(y) > Rank(x)}) = k - 1]

RECURSIVE SortPaths(_)
SortPaths(S) ==
  IF S = {} THEN <<>>
  ELSE LET m == CHOOSE x \in S : \A y \in S : Rank(x) <= Rank(y)
       IN <<m>> \o SortPaths(S \ {m})

\* path.join(repoPath, targetPath) and the paths under it
UnderTarget(p, t) == Len(p.dir) >= Len(t) /\ SubSeq(p.dir, 1, Len(t)) = t
Relative(p, t) == [p EXCEPT !.dir = SubSeq(p.dir, Len(t) + 1, Len(p.dir))]
\* line 560: fs.pathExists(searchPath); a directory of a working copy
\* exists while it holds a file
pathExists(wt, t) == t = <<>> \/ \E p \in Paths : Present(wt[p]) /\ UnderTarget(p, t)
\* line 561: "Target path does not exist: ..."
TargetMissing == {"Target path does not exist"}

\* lines 564-637, called as run() calls it (lines 1195-1199)
findSourceFiles(wt, targetPath, changedFiles, newFiles, overwrite) ==
  LET isIncremental == changedFiles # {} \/ newFiles # {} IN
  IF isIncremental
  THEN LET fromChanged == {f \in changedFiles : Present(wt[f]) /\ isSupportedFile(f)}
           fromNew == {f \in newFiles : Present(wt[f]) /\ isSupportedFile(f)}
       IN [made |-> TRUE,
           sourceFiles |-> SortPaths(fromChanged \cup fromNew),
           existingDocs |-> <<>>,
           isIncremental |-> TRUE]
  ELSE LET allFiles == {f \in Paths : /\ Present(wt[f])
                                      /\ UnderTarget(f, targetPath)
                                      /\ ~excluded(Relative(f, targetPath))}
           supported == {f \in allFiles : isSupportedFile(f)}
           kept == {f \in supported : documentationExists(wt, f) /\ ~overwrite}
       IN [made |-> TRUE,
           sourceFiles |-> SortPaths(supported \ kept),
           existingDocs |-> SortPaths(kept),
           isIncremental |-> FALSE]

\* lines 1194-1213: plan, and return when there is nothing to document;
\* lines 558-562: a target path that is not there is thrown
run_findSourceFiles ==
  /\ pc = "plan"
  /\ IF ~pathExists(git.wt, options.targetPath)
     THEN /\ err' = TargetMissing
          /\ pc' = "catch"
          /\ UNCHANGED plan
     ELSE LET r == findSourceFiles(git.wt, options.targetPath,
                                   branchInfo.changedFiles, branchInfo.newFiles,
                                   options.overwrite)
          IN /\ plan' = r
             /\ pc' = IF r.sourceFiles # <<>> THEN "generate"
                      ELSE IF branchInfo.hasExistingDocs /\ r.existingDocs # <<>>
                           THEN "index" ELSE "returned"
             /\ UNCHANGED err
  /\ UNCHANGED <<tempRepos, ix, options, prior, log, runs, calls, remote, upstream, repoDir,
                 git, branchInfo, lastDocsCommit, conflicted, snap,
                 documentedFiles, failedFiles, ops, retryError>>

\* lines 794-808
saveDocumentation(g, p) ==
  [g EXCEPT !.wt[DocFile(p)] = "gen", !.dirty = @ \cup {DocFile(p)}]

\* the action told by whether the file's documentation exists
actionOf_byArtifact(filePath, info) ==
  IF documentationExists(git.wt, filePath) THEN "Updating" ELSE "Creating"

\* lines 1239-1240: the action the loop logs for a file
actionOf(filePath, info) ==
  IF filePath \in info.changedFiles THEN "Updating"
  ELSE IF filePath \in info.newFiles THEN "Creating"
  ELSE "Processing"

\* the file is pushed whatever the result was
pushResult_always(list, filePath, cond) == Append(list, filePath)

\* lines 1245-1252: documentedFiles.push when doc is not null,
\* failedFiles.push when it is
pushResult(list, filePath, cond) ==
  IF cond THEN Append(list, filePath) ELSE list

\* lines 1237-1256: one round of the loop; generateDocumentation returns
\* the text or null
run_generate ==
  /\ pc = "generate"
  /\ LET i == Len(log) + 1
         filePath == plan.sourceFiles[i]
     IN /\ \E doc \in BOOLEAN :
             /\ log' = Append(log, [path |-> filePath,
                                    action |-> actionOf(filePath, branchInfo),
                                    hadDoc |-> documentationExists(git.wt, filePath),
                                    ok |-> doc])
             /\ git' = IF doc THEN saveDocumentation(git, filePath) ELSE git
             /\ documentedFiles' = pushResult(documentedFiles, filePath, doc)
             /\ failedFiles' = pushResult(failedFiles, filePath, ~doc)
        /\ pc' = IF i = Len(plan.sourceFiles) THEN "index" ELSE "generate"
  /\ UNCHANGED <<tempRepos, ix, options, prior, runs, calls, remote, upstream, repoDir, branchInfo,
                 lastDocsCommit, conflicted, snap, plan, ops, retryError, err>>

\* lines 810-864 with writeIndexFile 926-973: the index file is rewritten
generateIndex(g) ==
  [g EXCEPT !.wt[INDEX] = "gen", !.dirty = @ \cup {INDEX}]

\* lines 1258-1267 (and 1204-1206)
run_generateIndex ==
  /\ pc = "index"
  /\ git' = IF documentedFiles # <<>> \/ plan.sourceFiles = <<>>
            THEN generateIndex(git) ELSE git
  /\ pc' = "commit"
  /\ UNCHANGED <<tempRepos, ix, options, prior, log, runs, calls, remote, upstream, repoDir, branchInfo,
                 lastDocsCommit, conflicted, snap, plan, documentedFiles,
                 failedFiles, ops, retryError, err>>

\* --------------------------------------------------------- commitAndPush
UnderDocs == {p \in Paths : Len(p.dir) >= 1 /\ p.dir[1] = "docs"}
docsPathExists(wt) == \E p \in UnderDocs : Present(wt[p])
indexPathExists(wt) == Present(wt[INDEX])

\* git add <pathspec>: modified, new and conflicted files under it are staged
GitAdd(g, S) ==
  [g EXCEPT !.staged = @ \cup ((g.dirty \cup g.unmerged) \cap S),
            !.dirty = @ \ S, !.unmerged = @ \ S]

\* both pathspecs added without the existence checks
pathsToAdd_unchecked(wt) == {"docs/", "DOCUMENTATION_INDEX.md"}

\* lines 985-994: the pathspecs handed to git add
pathsToAdd(wt) ==
  (IF docsPathExists(wt) THEN {"docs/"} ELSE {}) \cup
  (IF indexPathExists(wt) THEN {"DOCUMENTATION_INDEX.md"} ELSE {})

Pathspec(a) ==
  CASE a = "docs/" -> UnderDocs
    [] a = "DOCUMENTATION_INDEX.md" -> {INDEX}
    [] a = "." -> Paths

\* status.files: every path git status lists
statusFiles(g) == g.staged \cup g.unmerged \cup g.dirty

\* the status check left out: the commit is attempted whatever is staged
nothingToCommit_skipped(g) == FALSE

\* line 1003
nothingToCommit(g) == statusFiles(g) = {}

\* lines 979-1006: stage what exists; return when there is nothing
commitAndPush_stage ==
  /\ pc = "commit"
  /\ LET adds == pathsToAdd(git.wt)
         hasFiles == adds # {}
         g == GitAdd(git, UNION {Pathspec(a) : a \in adds})
     IN /\ git' = g
        /\ ops' = [NoOps EXCEPT !.called = TRUE, !.adds = adds,
                                !.clean = g.staged \cup g.unmerged = {}]
        /\ pc' = IF ~hasFiles \/ nothingToCommit(g) THEN "summary" ELSE "cpCommit"
  /\ retryError' = {}
  /\ err' = {}
  /\ UNCHANGED <<tempRepos, ix, options, prior, log, runs, calls, remote, upstream, repoDir, branchInfo,
                 lastDocsCommit, conflicted, snap, plan, documentedFiles,
                 failedFiles>>

\* lines 1078-1123: the message of the error commitAndPush throws for a
\* caught error with message e
pushErrorMessage(e) ==
  IF "403" \in e \/ "denied" \in e THEN e \cup {"insufficient permissions"}
  ELSE IF "401" \in e \/ "authentication" \in e THEN e \cup {"authentication"}
  ELSE IF "404" \in e THEN e \cup {"not found"}
  ELSE IF "non-fast-forward" \in e \/ "rejected" \in e THEN e \cup {"rejected", "conflict"}
  ELSE e

\* lines 1008-1035: git commit with the generator's message
commitAndPush_commit ==
  /\ pc = "cpCommit"
  /\ ops' = [ops EXCEPT !.commits = Append(@, "doc")]
  /\ IF git.unmerged # {}
     THEN /\ err' = pushErrorMessage(UnmergedFiles)
          /\ pc' = "catch"
          /\ UNCHANGED git
     ELSE /\ git' = Commit(git, "doc")
          /\ pc' = "cpPush"
          /\ UNCHANGED err
  /\ UNCHANGED <<tempRepos, ix, options, prior, log, runs, calls, remote, upstream, repoDir, branchInfo,
                 lastDocsCommit, conflicted, snap, plan, documentedFiles,
                 failedFiles, retryError>>

\* what the remote may answer to a push, and the error of each answer
PushOutcomes == {"ok", "rejected", "declined", "denied", "network"}
PushError(o) ==
  CASE o = "rejected" -> NonFastForward
    [] o = "declined" -> HookDeclined
    [] o = "denied" -> PermissionDenied
    [] OTHER -> NetworkError

\* the committed tree as the next clone sees it
Normalise(c) ==
  CASE c = "gen" -> "docs"
    [] c = "mixed" -> "docs"
    [] c = "main" -> "base"
    [] OTHER -> c

\* a push that the remote accepts
Published(g) ==
  [branch |-> TRUE,
   tree |-> [p \in Paths |-> Normalise(g.wt[p])],
   last |-> getLastDocumentationCommit(g)]
Pushed(g) == [g EXCEPT !.base = "remote", !.ahead = <<>>]
Merged(g, up) == IF g.merged THEN [p \in Paths |-> "none"] ELSE up

\* lines 1037-1044 and 1074-1076: the first push
commitAndPush_push ==
  /\ pc = "cpPush"
  /\ \E o \in PushOutcomes :
       /\ ops' = [ops EXCEPT !.pushes = Append(@, o)]
       /\ IF o = "ok"
          THEN /\ remote' = Published(git)
               /\ upstream' = Merged(git, upstream)
               /\ git' = Pushed(git)
               /\ pc' = "summary"
               /\ UNCHANGED err
          ELSE IF "non-fast-forward" \in PushError(o)
          THEN /\ pc' = "cpPull"
               /\ UNCHANGED <<remote, upstream, git, err>>
          ELSE /\ err' = pushErrorMessage(PushError(o))
               /\ pc' = "catch"
               /\ UNCHANGED <<remote, upstream, git>>
  /\ UNCHANGED <<tempRepos, ix, options, prior, log, runs, calls, repoDir, branchInfo, lastDocsCommit, conflicted,
                 snap, plan, documentedFiles, failedFiles, retryError>>

\* git pull --no-rebase that stops on a content conflict: the generated
\* files the remote also changed are left with conflict markers
PullConflict(g) ==
  LET K == {p \in Paths : IsDocOutput(p) /\ Present(g.wt[p])}
  IN [g EXCEPT !.wt = [p \in Paths |-> IF p \in K THEN "mixed" ELSE g.wt[p]],
               !.unmerged = K]

PullOutcomes == {"ok", "conflict", "network"}
PullError(o) == IF o = "conflict" THEN ContentConflict ELSE NetworkError

\* lines 1045-1048: pull after the rejection
commitAndPush_pull ==
  /\ pc = "cpPull"
  /\ \E o \in PullOutcomes :
       /\ ops' = [ops EXCEPT !.pulls = Append(@, o)]
       /\ IF o = "ok"
          THEN /\ git' = [git EXCEPT !.ahead = Append(@, "pull")]
               /\ pc' = "cpRetry"
               /\ UNCHANGED retryError
          ELSE /\ git' = IF o = "conflict" THEN PullConflict(git) ELSE git
               /\ retryError' = PullError(o)
               /\ pc' = "cpResolve"
  /\ UNCHANGED <<tempRepos, ix, options, prior, log, runs, calls, remote, upstream, repoDir, branchInfo,
                 lastDocsCommit, conflicted, snap, plan, documentedFiles,
                 failedFiles, err>>

\* the second push's success treated like its failure
afterRetryPush_rethrow(o) == "cpResolve"

\* where commitAndPush goes after the second push answered o
afterRetryPush(o) == IF o = "ok" THEN "summary" ELSE "cpResolve"

\* lines 1050-1054: the second push
commitAndPush_retry ==
  /\ pc = "cpRetry"
  /\ \E o \in PushOutcomes :
       /\ ops' = [ops EXCEPT !.pushes = Append(@, o)]
       /\ pc' = afterRetryPush(o)
       /\ IF o = "ok"
          THEN /\ remote' = Published(git)
               /\ upstream' = Merged(git, upstream)
               /\ git' = Pushed(git)
               /\ UNCHANGED retryError
          ELSE /\ retryError' = PushError(o)
               /\ UNCHANGED <<remote, upstream, git>>
  /\ UNCHANGED <<tempRepos, ix, options, prior, log, runs, calls, repoDir, branchInfo, lastDocsCommit, conflicted,
                 snap, plan, documentedFiles, failedFiles, err>>

\* the thrown message without the original error's text
resolveFailedMessage_bare(e) == {"Failed to resolve", "conflict"}

\* line 1068: "Failed to resolve merge conflicts automatically. ...
\* Original error: ${retryError.message}"
resolveFailedMessage(e) == {"Failed to resolve", "conflict"} \cup e

\* lines 1056-1072: a conflict is resolved by staging everything,
\* committing and pushing once more; any other error is rethrown
commitAndPush_resolve ==
  /\ pc = "cpResolve"
  /\ IF "conflict" \in retryError
     THEN \E o \in PushOutcomes :
            LET g == Commit(GitAdd(git, Pathspec(".")), "resolve") IN
            /\ ops' = [ops EXCEPT !.adds = @ \cup {"."},
                                  !.commits = Append(@, "resolve"),
                                  !.pushes = Append(@, o)]
            /\ IF o = "ok"
               THEN /\ remote' = Published(g)
                    /\ upstream' = Merged(g, upstream)
                    /\ git' = Pushed(g)
                    /\ pc' = "summary"
                    /\ UNCHANGED err
               ELSE /\ git' = g
                    /\ err' = pushErrorMessage(resolveFailedMessage(retryError))
                    /\ pc' = "catch"
                    /\ UNCHANGED <<remote, upstream>>
     ELSE /\ err' = pushErrorMessage(retryError)
          /\ pc' = "catch"
          /\ UNCHANGED <<remote, upstream, git, ops>>
  /\ UNCHANGED <<tempRepos, ix, options, prior, log, runs, calls, repoDir, branchInfo, lastDocsCommit, conflicted,
                 snap, plan, documentedFiles, failedFiles, retryError>>

\* ----------------------------------------------------------- run: ends
\* lines 1130-1157: does the working copy exist after cleanup?
cleanup(exists) == FALSE

\* lines 1273-1302 and 1311-1313: the summary, then cleanup(true)
run_finish ==
  /\ pc = "summary"
  /\ repoDir' = cleanup(repoDir)
  /\ pc' = "done"
  /\ UNCHANGED <<tempRepos, ix, options, prior, log, runs, calls, remote, upstream, git, branchInfo,
                 lastDocsCommit, conflicted, snap, plan, documentedFiles,
                 failedFiles, ops, retryError, err>>

\* lines 1304-1309: cleanup(), then the error is thrown again
run_catch ==
  /\ pc = "catch"
  /\ repoDir' = cleanup(repoDir)
  /\ pc' = "failed"
  /\ UNCHANGED <<tempRepos, ix, options, prior, log, runs, calls, remote, upstream, git, branchInfo,
                 lastDocsCommit, conflicted, snap, plan, documentedFiles,
                 failedFiles, ops, retryError, err>>

Next ==
  \/ cloneRepository
  \/ createDocumentationBranch
  \/ createDocumentationBranch_hasDocs
  \/ mergeFromMainBranch_changes
  \/ mergeFromMainBranch_merge
  \/ run_upToDate
  \/ run_findSourceFiles
  \/ run_generate
  \/ run_generateIndex
  \/ commitAndPush_stage
  \/ commitAndPush_commit
  \/ commitAndPush_push
  \/ commitAndPush_pull
  \/ commitAndPush_retry
  \/ commitAndPush_resolve
  \/ run_finish
  \/ run_catch

Spec == Init /\ [][Next]_vars

\* ------------------------------------------------- DOCUMENTATION_INDEX.md
\* generateIndex calls a caller makes on one index file
MaxIndexCalls == 2

\* the files handed to generateIndex: src/a.ts, src/a.js, src/b.ts, main.ts
AJ == [dir |-> <<"src">>, name |-> "a", ext |-> ".js"]
MAIN == [dir |-> <<>>, name |-> "main", ext |-> ".ts"]
IxFiles == {A, AJ, B, MAIN}
\* ---- getFileOverview (lines 907-924) ----
\* a documentation file is the text the AI answered (saveDocumentation
\* writes it as it is); its lines are strings
Ten == "0123456789"
Eighty == Ten \o Ten \o Ten \o Ten \o Ten \o Ten \o Ten \o Ten
Title == "# Documentation"
Prose == "An overview line"
Indented == "  An indented line"
Later == "A later line"
LongLine == Eighty \o "x"

\* String.prototype.trim on the blanks
RECURSIVE trim(_)
trim(line) ==
  IF line = "" THEN ""
  ELSE IF SubSeq(line, 1, 1) = " " THEN trim(SubSeq(line, 2, Len(line)))
  ELSE IF SubSeq(line, Len(line), Len(line)) = " "
  THEN trim(SubSeq(line, 1, Len(line) - 1))
  ELSE line
startsWith(line, prefix) ==
  Len(line) >= Len(prefix) /\ SubSeq(line, 1, Len(prefix)) = prefix
\* line 916: line.length > 80 ? line.substring(0, 80) + '...' : line
truncate(line) == IF Len(line) > 80 THEN SubSeq(line, 1, 80) \o "..." ELSE line
\* line 915: line && !line.startsWith('#') && !line.startsWith('##')
isOverviewLine(line) == line # "" /\ ~startsWith(line, "#") /\ ~startsWith(line, "##")
Least(S) == CHOOSE i \in S : \A j \in S : i <= j

\* lines 913-918: for (let i = 4; i < Math.min(15, lines.length); i++),
\* on lines counted from 1 here
getFileOverview(doc) ==
  IF ~doc.exists THEN ""
  ELSE LET last == IF Len(doc.lines) < 15 THEN Len(doc.lines) ELSE 15
           found == {i \in 5..last : isOverviewLine(trim(doc.lines[i]))}
       IN IF found = {} THEN "" ELSE truncate(trim(doc.lines[Least(found)]))

\* the documentation files generateIndex is followed on: none, and one
\* whose fifth line is its first line of prose
IndexDocs ==
  {NoFile, [exists |-> TRUE, lines |-> <<Title, "", "## Overview", "", Prose>>]}
\* what getFileOverview returns for them
Overviews == {getFileOverview(doc) : doc \in IndexDocs}
\* the lists of one or two of the files
DocumentedLists ==
  {<<f>> : f \in IxFiles} \cup
  {s \in {<<f, g>> : f \in IxFiles, g \in IxFiles} : s[1] # s[2]}

\* a line of the index file: what the parser tests (its start and its
\* end) is its kind; the rest is the text it carries
NoPath == [dir |-> <<>>, name |-> "", ext |-> ""]
TextLine(t) ==
  [kind |-> "text", dir |-> <<>>, name |-> t, link |-> NoPath, overview |-> ""]
\* '### Root Directory', `### ${dirPath}/`
RootHeading ==
  [kind |-> "rootHeading", dir |-> <<>>, name |-> "", link |-> NoPath, overview |-> ""]
DirHeading(dirPath) ==
  [kind |-> "heading", dir |-> dirPath, name |-> "", link |-> NoPath, overview |-> ""]
\* lines 820-826: `- **[${fileName}](${docLink})**` and ` - ${overview}`
EntryLine(filePath, overview) ==
  [kind |-> "entry", dir |-> <<>>, name |-> filePath.name,
   link |-> DocFile(filePath), overview |-> overview]

\* line 828: path.dirname(filePath) === '.' ? 'Root' : path.dirname(filePath)
DirKey(filePath) == IF filePath.dir = <<>> THEN <<"Root">> ELSE filePath.dir

\* lines 866-905: the entries of the file, directory by directory
RECURSIVE ParseLines(_, _, _)
ParseLines(lines, currentDir, existingEntries) ==
  IF lines = <<>> THEN existingEntries
  ELSE LET line == Head(lines)
           rest == Tail(lines)
       IN IF line.kind = "heading" THEN ParseLines(rest, line.dir, existingEntries)
          ELSE IF line.kind = "rootHeading"
          THEN ParseLines(rest, <<"Root">>, existingEntries)
          ELSE IF line.kind = "entry" /\ currentDir # <<>>
          THEN LET fileName == line.name
                   item == [fileName |-> fileName, entry |-> line,
                            filePath |-> [dir |-> IF currentDir = <<"Root">> THEN <<>>
                                                  ELSE currentDir,
                                          name |-> fileName, ext |-> ""]]
                   had == IF currentDir \in DOMAIN existingEntries
                          THEN existingEntries[currentDir] ELSE <<>>
               IN ParseLines(rest, currentDir,
                    [d \in DOMAIN existingEntries \cup {currentDir} |->
                       IF d = currentDir THEN Append(had, item) ELSE existingEntries[d]])
          ELSE ParseLines(rest, currentDir, existingEntries)

readExistingIndex(file) ==
  IF ~file.exists THEN <<>> ELSE ParseLines(file.lines, <<>>, <<>>)

\* lines 817-839: the entries of the newly documented files by directory,
\* in the order of documentedFiles
newEntriesOf(documented, overview) ==
  [d \in {DirKey(documented[k]) : k \in 1..Len(documented)} |->
     LET here == SelectSeq(documented, LAMBDA f : DirKey(f) = d)
     IN [k \in 1..Len(here) |->
           [fileName |-> here[k].name,
            entry |-> EntryLine(here[k], overview[here[k]]),
            filePath |-> here[k]]]]

\* the entry added though one with its fileName is there
upsert_append(files, fileInfo) == Append(files, fileInfo)

\* lines 849-859: findIndex on fileName; replace at that index, else push
upsert(files, fileInfo) ==
  LET found == {k \in 1..Len(files) : files[k].fileName = fileInfo.fileName}
  IN IF found # {}
     THEN LET existingIndex == CHOOSE k \in found : \A j \in found : k <= j
          IN [files EXCEPT ![existingIndex] = fileInfo]
     ELSE Append(files, fileInfo)

RECURSIVE upsertAll(_, _)
upsertAll(files, news) ==
  IF news = <<>> THEN files
  ELSE upsertAll(upsert(files, Head(news)), Tail(news))

\* lines 842-860: { ...existingEntries } with the new entries put in
mergeEntries(existingEntries, newEntries) ==
  [d \in DOMAIN existingEntries \cup DOMAIN newEntries |->
     IF d \in DOMAIN newEntries
     THEN upsertAll(IF d \in DOMAIN existingEntries THEN existingEntries[d]
                    ELSE <<>>, newEntries[d])
     ELSE existingEntries[d]]

\* Object.keys(entries).sort() and localeCompare on fileName
DirRank(d) == CASE d = <<"Root">> -> 1 [] d = <<"lib">> -> 2 [] d = <<"src">> -> 3
NameRank(n) == CASE n = "a" -> 1 [] n = "b" -> 2 [] n = "c" -> 3 [] n = "main" -> 4
RECURSIVE sortedDirsOf(_)
sortedDirsOf(D) ==
  IF D = {} THEN <<>>
  ELSE LET m == CHOOSE x \in D : \A y \in D : DirRank(x) <= DirRank(y)
       IN <<m>> \o sortedDirsOf(D \ {m})
RECURSIVE sortedFilesOf(_)
sortedFilesOf(files) ==
  IF files = <<>> THEN <<>>
  ELSE LET k == CHOOSE k \in 1..Len(files) : \A j \in 1..Len(files) :
                  \/ NameRank(files[k].fileName) < NameRank(files[j].fileName)
                  \/ NameRank(files[k].fileName) = NameRank(files[j].fileName) /\ k <= j
       IN <<files[k]>> \o
          sortedFilesOf(SubSeq(files, 1, k - 1) \o SubSeq(files, k + 1, Len(files)))

RECURSIVE Sum(_, _)
Sum(f, D) ==
  IF D = {} THEN 0
  ELSE LET x == CHOOSE x \in D : TRUE IN Len(f[x]) + Sum(f, D \ {x})

RECURSIVE renderDirs(_, _)
renderDirs(dirs, entries) ==
  IF dirs = <<>> THEN <<>>
  ELSE LET dirPath == Head(dirs)
           files == sortedFilesOf(entries[dirPath])
       IN <<IF dirPath = <<"Root">> THEN RootHeading ELSE DirHeading(dirPath),
            TextLine("")>>
          \o [k \in 1..Len(files) |-> files[k].entry]
          \o <<TextLine("")>>
          \o renderDirs(Tail(dirs), entries)

\* lines 926-973: the text written; now stands for new Date()
writeIndexFile(entries, now) ==
  [exists |-> TRUE,
   lines |->
     <<TextLine("# Documentation Index"), TextLine(""),
       TextLine("This is the complete documentation index"), TextLine(""),
       [TextLine("Total documented files") EXCEPT
          !.overview = ToString(Sum(entries, DOMAIN entries))],
       TextLine(""), TextLine("## Quick Navigation"), TextLine("")>>
     \o renderDirs(sortedDirsOf(DOMAIN entries), entries)
     \o <<TextLine("---"), TextLine(""),
          TextLine("This documentation was generated automatically"), TextLine(""),
          [TextLine("Last updated") EXCEPT !.overview = ToString(now)]>>]

\* lines 810-864: generateIndex(documentedFiles) on the index file as it
\* is; the overview of each documentation file is what getFileOverview
\* returns for it
generateIndex_call ==
  /\ ix.calls < MaxIndexCalls
  /\ \E documented \in DocumentedLists, docs \in [IxFiles -> IndexDocs] :
       LET existingEntries == readExistingIndex(ix.file)
           overview == [f \in IxFiles |-> getFileOverview(docs[f])]
           newEntries == newEntriesOf(documented, overview)
           mergedEntries == mergeEntries(existingEntries, newEntries)
       IN ix' = [ix EXCEPT !.file = writeIndexFile(mergedEntries, ix.calls + 1),
                           !.calls = ix.calls + 1,
                           !.documented = documented,
                           !.before = existingEntries,
                           !.merged = mergedEntries]
  /\ UNCHANGED <<pc, runs, calls, remote, upstream, repoDir, git, branchInfo,
                 lastDocsCommit, conflicted, snap, plan, documentedFiles,
                 failedFiles, ops, retryError, err, options, prior, log, tempRepos>>

IndexInit ==
  /\ Idle
  /\ remote \in {r \in InitRemotes : ~r.branch /\ r.tree[DocFile(A)] = "absent"}
  /\ upstream \in InitUpstreams(remote)
  /\ options = [overwrite |-> FALSE, targetPath |-> <<>>]
  /\ ix = NoIndex

IndexNext == generateIndex_call

SpecIndex == IndexInit /\ [][IndexNext]_vars

\* ---- getFileOverview on documentation files of every shape ----
MaxDocLine == 17
Blanks(n) == [i \in 1..n |-> ""]
\* a title, blank lines, a first line of prose as line k, and after it
\* either nothing or a blank line and a later line of prose
DocShapes ==
  { [exists |-> TRUE,
     lines |-> <<Title>> \o Blanks(k - 2) \o <<first>> \o tail] :
     k \in 2..MaxDocLine, first \in {Prose, Indented, Eighty, LongLine},
     tail \in {<<>>, <<"", Later>>} }
  \cup {NoFile, [exists |-> TRUE, lines |-> <<Title, "", "## Overview">>]}

getFileOverview_call ==
  /\ ~ix.read
  /\ ix' = [ix EXCEPT !.read = TRUE, !.overview = getFileOverview(ix.doc)]
  /\ UNCHANGED <<pc, runs, calls, remote, upstream, repoDir, git, branchInfo,
                 lastDocsCommit, conflicted, snap, plan, documentedFiles,
                 failedFiles, ops, retryError, err, options, prior, log, tempRepos>>

OverviewInit ==
  /\ Idle
  /\ remote \in {r \in InitRemotes : ~r.branch /\ r.tree[DocFile(A)] = "absent"}
  /\ upstream \in InitUpstreams(remote)
  /\ options = [overwrite |-> FALSE, targetPath |-> <<>>]
  /\ ix \in {[NoIndex EXCEPT !.doc = doc] : doc \in DocShapes}

OverviewNext == getFileOverview_call

SpecOverview == OverviewInit /\ [][OverviewNext]_vars

\* ---- generators working at once in one temp-repos directory ----
\* the run() call followed by the other variables does not move here
NoRunStep ==
  UNCHANGED <<pc, runs, calls, remote, upstream, repoDir, git, branchInfo,
              lastDocsCommit, conflicted, snap, plan, documentedFiles,
              failedFiles, ops, retryError, err, options, prior, log, ix>>

\* route.ts lines 5-39 and 62-66, run(): a generator is created for a
\* repository; POST does not wait for the one before
newGenerator(g) ==
  /\ tempRepos.gen[g].pc = "none"
  /\ \E n \in RepoNames, force \in BOOLEAN :
       tempRepos' = [tempRepos EXCEPT
                       !.gen[g] = [pc |-> "created", repoName |-> n, force |-> force]]
  /\ NoRunStep

\* lines 276-315: ensureDir(tempDir), remove this.repoPath if it exists,
\* clone into it
gen_cloneRepository(g) ==
  /\ tempRepos.gen[g].pc = "created"
  /\ tempRepos' = [tempRepos EXCEPT !.exists = TRUE,
                                    !.dirs[tempRepos.gen[g].repoName] = g,
                                    !.gen[g].pc = "working"]
  /\ NoRunStep

\* a step of the generator on this.repoPath (branch, merge, scan, save,
\* commit): it fails when the directory is not its clone any more
gen_work(g) ==
  /\ tempRepos.gen[g].pc = "working"
  /\ tempRepos' = [tempRepos EXCEPT
                     !.gen[g].pc = IF tempRepos.dirs[tempRepos.gen[g].repoName] = g
                                   THEN "finishing" ELSE "failing"]
  /\ NoRunStep

\* lines 1130-1157: cleanup(force) removes this.repoPath if it exists,
\* then temp-repos if it is empty or force is set
gen_cleanup(g) ==
  /\ tempRepos.gen[g].pc \in {"finishing", "failing"}
  /\ LET gen == tempRepos.gen[g]
         force == gen.force /\ gen.pc = "finishing"
         dirs == [tempRepos.dirs EXCEPT ![gen.repoName] = 0]
         empty == \A n \in RepoNames : dirs[n] = 0
     IN tempRepos' = [tempRepos EXCEPT
                        !.dirs = IF tempRepos.exists /\ force
                                 THEN [n \in RepoNames |-> 0] ELSE dirs,
                        !.exists = tempRepos.exists /\ ~(empty \/ force),
                        !.gen[g].pc = "ended"]
  /\ NoRunStep

\* generation-status/route.ts line 29, lines 1159-1173: the cleanup
\* request removes temp-repos
forceCleanupAllTempRepos ==
  /\ tempRepos.exists
  /\ tempRepos' = [tempRepos EXCEPT !.exists = FALSE,
                                    !.dirs = [n \in RepoNames |-> 0]]
  /\ NoRunStep

ServerNext ==
  \/ \E g \in Generators : newGenerator(g)
  \/ \E g \in Generators : gen_cloneRepository(g)
  \/ \E g \in Generators : gen_work(g)
  \/ \E g \in Generators : gen_cleanup(g)
  \/ forceCleanupAllTempRepos

ServerInit ==
  /\ Idle
  /\ remote \in {r \in InitRemotes : ~r.branch /\ r.tree[DocFile(A)] = "absent"}
  /\ upstream \in InitUpstreams(remote)
  /\ options = [overwrite |-> FALSE, targetPath |-> <<>>]
  /\ ix = NoIndex

SpecServer == ServerInit /\ [][ServerNext]_vars

\* ===================================================================
\* Properties
\* ===================================================================
Returned == pc \in {"summary", "done"}
Thrown == pc \in {"catch", "failed"}
Ended == pc \in {"returned", "done", "failed"}
\* the elements of a list
Range(s) == {s[k] : k \in 1..Len(s)}

\* C1: when nothing is staged after the adds of docs/ and
\* DOCUMENTATION_INDEX.md (the index equals HEAD), commitAndPush returns
\* normally and has attempted no commit and no push.
C1_NoCommitWhenNothingStaged ==
  ops.clean =>
    /\ Returned
    /\ err = {}
    /\ ops.commits = <<>>
    /\ ops.pushes = <<>>

\* C1 witness: docs exist and were added, nothing was staged, the call
\* returned before the commit.
C1_Witness ==
  /\ pc = "summary"
  /\ ops.called /\ ops.clean
  /\ ops.adds # {}
  /\ git.ahead # <<>>

\* C2: the first staging step hands git add exactly the artifacts that
\* exist (docs/ when the directory exists, DOCUMENTATION_INDEX.md when the
\* file exists); when neither exists commitAndPush returns normally with
\* no add, no commit and no push.
C2_StagesOnlyExisting ==
  ops.called =>
    /\ ("docs/" \in ops.adds) = docsPathExists(git.wt)
    /\ ("DOCUMENTATION_INDEX.md" \in ops.adds) = indexPathExists(git.wt)
    /\ (~docsPathExists(git.wt) /\ ~indexPathExists(git.wt)) =>
         /\ Returned /\ err = {}
         /\ ops.adds = {} /\ ops.commits = <<>> /\ ops.pushes = <<>>

\* C2 witness: commitAndPush was called with neither docs/ nor the index
\* on disk (every summary of a first run failed).
C2_Witness ==
  /\ pc = "summary"
  /\ ops.called
  /\ ~docsPathExists(git.wt) /\ ~indexPathExists(git.wt)
  /\ Len(failedFiles) = 2

\* C3: first push rejected as non-fast-forward, the pull succeeds, the
\* second push succeeds: one pull, two pushes, normal return, no error.
C3_PushRace ==
  ( /\ Len(ops.pushes) >= 2 /\ ops.pushes[1] = "rejected" /\ ops.pushes[2] = "ok"
    /\ Len(ops.pulls) >= 1 /\ ops.pulls[1] = "ok" ) =>
    /\ Len(ops.pulls) = 1
    /\ Len(ops.pushes) = 2
    /\ Returned
    /\ err = {}

\* C3 witness: the push race ran to its normal end.
C3_Witness ==
  /\ pc = "summary" /\ ops.pushes = <<"rejected", "ok">> /\ ops.pulls = <<"ok">>
  /\ remote.last = "marker"

C5_MergeFailurePropagates ==
  pc \in {"plan", "generate", "index"} => \A p \in conflicted : IsDocOutput(p)

\* C6 (as claimed): a run whose merge left a conflict outside docs/ and
\* DOCUMENTATION_INDEX.md ends in an error, and the conflicted path is
\* never staged as resolved.
C6_SourceConflictFatal ==
  ((\E p \in conflicted : ~IsDocOutput(p)) /\ Ended) =>
    /\ pc = "failed"
    /\ \A p \in conflicted : ~IsDocOutput(p) => p \in git.unmerged

\* C7 (as claimed): a doc-output path that the documentation branch and
\* upstream both modified holds the documentation branch's version after
\* the reconciliation.
C7_DocsVersionWins ==
  \A p \in Paths :
    ( /\ pc = "branched" /\ branchInfo.hasExistingDocs
      /\ IsDocOutput(p) /\ upstream[p] = "M" /\ remote.tree[p] = "docs" ) =>
      git.wt[p] = "docs"

\* C8: when createDocumentationBranch returns, the named branch is checked
\* out; it holds the remote tip when the remote branch exists; a branch
\* made because neither exists starts at the tip that was checked out.
C8_BranchCheckedOut ==
  pc \in {"hasDocs", "changes", "merge", "branched"} =>
    /\ git.cur = "docs"
    /\ git.local
    /\ remote.branch => git.base = "remote"
    /\ (~remote.branch /\ calls = 1) =>
         (git.base = "main" /\ git.ahead = <<>> /\ git.wt = snap.wt)
    /\ (remote.branch /\ calls = 1 /\ pc = "hasDocs") =>
         (git.ahead = <<>> /\ git.wt = remote.tree)

\* C8 witness: a first call returned on a branch made from the current tip.
C8_Witness ==
  /\ pc = "branched" /\ calls = 1 /\ ~remote.branch
  /\ git.cur = "docs" /\ snap.cur = "main"

\* C9: a second createDocumentationBranch call leaves the checked-out
\* branch, the branch tips, the history and the working tree as the first
\* call left them.
C9_SecondCallNoOp ==
  (calls >= 2 /\ ~plan.made /\ pc \in {"branched", "catch"}) => git = snap

\* C9 witness: the second call returned after a first call that committed
\* a merge of main.
C9_Witness ==
  /\ calls = 2 /\ pc = "branched" /\ ~plan.made
  /\ git.ahead = <<"merge">>

\* C10 (as claimed): with no last documentation commit the change sets
\* are empty and the run goes on to a full scan.
C10_FallsBackToFullScan ==
  (branchInfo.hasExistingDocs /\ lastDocsCommit = "none") =>
    /\ branchInfo.changedFiles = {} /\ branchInfo.newFiles = {}
    /\ Ended => (plan.made /\ ~plan.isIncremental)

\* C11: every path of the change sets has a supported extension; a
\* supported path the diff shows as added is in newFiles only, one it
\* shows as modified or deleted is in changedFiles only; the plan is
\* incremental exactly when one of the sets is non-empty.
C11_ChangeSetClassified ==
  LET computed == /\ lastDocsCommit # "none"
                  /\ \/ pc = "merge"
                     \/ /\ branchInfo.hasExistingDocs
                        /\ pc \in {"branched", "plan", "generate", "index", "commit"}
  IN /\ computed =>
          /\ \A p \in branchInfo.changedFiles \cup branchInfo.newFiles :
                isSupportedFile(p)
          /\ \A p \in Paths : isSupportedFile(p) =>
                /\ upstream[p] = "A" =>
                     (p \in branchInfo.newFiles /\ p \notin branchInfo.changedFiles)
                /\ upstream[p] \in {"M", "D"} =>
                     (p \in branchInfo.changedFiles /\ p \notin branchInfo.newFiles)
     /\ plan.made =>
          (plan.isIncremental <=>
             (branchInfo.changedFiles # {} \/ branchInfo.newFiles # {}))

\* C11 witness: the diff modified src/a.ts and README.md and added
\* src/b.ts; the plan made from the sets is incremental.
C11_Witness ==
  /\ plan.made /\ plan.isIncremental
  /\ upstream[README] = "M"
  /\ branchInfo.changedFiles = {A}
  /\ branchInfo.newFiles = {B}

\* C12 (as claimed): a run that follows a run which committed and pushed
\* documentation, main being what it was, finds empty change sets, plans
\* no work item, makes no commit and no push.
C12_SecondRunNoOp ==
  prior.committed =>
    /\ branchInfo.changedFiles = {} /\ branchInfo.newFiles = {}
    /\ plan.sourceFiles = <<>>
    /\ git.ahead = <<>>
    /\ ops.commits = <<>> /\ ops.pushes = <<>>

\* C13: a full-scan plan partitions the supported files present under the
\* target path: those whose documentation file exists while overwrite is
\* off are existingDocs, all the others are the work items, each listed
\* once; three supported files without documentation give three work items.
C13_FullScanPartition ==
  (plan.made /\ ~plan.isIncremental /\ log = <<>>) =>
    LET documentable == {f \in Paths : /\ Present(git.wt[f])
                                       /\ f.ext \in supportedExtensions
                                       /\ Len(f.dir) >= Len(options.targetPath)
                                       /\ \A k \in 1..Len(options.targetPath) :
                                            f.dir[k] = options.targetPath[k]}
        documented == {f \in documentable : Present(git.wt[DocFile(f)])}
        existing == IF options.overwrite THEN {} ELSE documented
    IN /\ Range(plan.existingDocs) = existing
       /\ Range(plan.sourceFiles) = documentable \ existing
       /\ Len(plan.existingDocs) = Cardinality(existing)
       /\ Len(plan.sourceFiles) = Cardinality(documentable \ existing)
       /\ (Cardinality(documentable) = 3 /\ documented = {}) =>
            Len(plan.sourceFiles) = 3

\* C13 witness: a full scan of the whole repository with overwrite off
\* found documentation for src/a.ts and none for lib/c.ts and src/b.ts.
C13_Witness ==
  /\ plan.made /\ ~plan.isIncremental /\ log = <<>>
  /\ ~options.overwrite /\ options.targetPath = <<>>
  /\ plan.existingDocs = <<A>>
  /\ plan.sourceFiles = <<C, B>>

\* the work items of an incremental plan: every path of the change sets
\* that has a supported extension and is in the working tree, whatever
\* overwrite is
C14_WorkItems ==
  Range(plan.sourceFiles) =
    {f \in branchInfo.changedFiles \cup branchInfo.newFiles :
       Present(git.wt[f]) /\ f.ext \in supportedExtensions}

\* C14 (as claimed): in incremental mode every such path is a work item,
\* and its action is Update when its documentation file exists, Create
\* otherwise.
C14_ActionByArtifact ==
  (plan.made /\ plan.isIncremental) =>
    /\ C14_WorkItems
    /\ \A k \in 1..Len(log) :
         log[k].action = IF log[k].hadDoc THEN "Updating" ELSE "Creating"

\* C14 (amended): in incremental mode every such path is a work item, and
\* its action is Update when the path is in changedFiles and Create when
\* it is in newFiles only, whether or not its documentation file exists.
C14_ActionByChangeSet ==
  (plan.made /\ plan.isIncremental) =>
    /\ C14_WorkItems
    /\ \A k \in 1..Len(log) :
         log[k].action = IF log[k].path \in branchInfo.changedFiles
                         THEN "Updating" ELSE "Creating"

\* C14 witness: with overwrite off, the changed src/a.ts was processed as
\* an update though it had no documentation file, then the new src/b.ts
\* as a creation.
C14_Witness ==
  /\ plan.isIncremental /\ ~options.overwrite
  /\ Len(log) = 2
  /\ log[1].path = A /\ log[1].action = "Updating" /\ ~log[1].hadDoc
  /\ log[2].path = B /\ log[2].action = "Creating" /\ ~log[2].hadDoc

\* C15 (as claimed): when run throws for a target path that does not
\* exist, no branch has been created or checked out, no merge commit has
\* been made and no plan exists.
C15_FailsBeforeMutation ==
  (Thrown /\ err = TargetMissing) =>
    /\ git.cur = "main"
    /\ ~git.local
    /\ git.ahead = <<>>
    /\ ~plan.made

\* C16: the work items of a plan are in strictly ascending path order,
\* and the loop processes them in that order, one after the other; the
\* order is therefore fixed by the set of work items alone.
C16_AscendingOrder ==
  /\ \A j, k \in 1..Len(plan.sourceFiles) :
       j < k => Rank(plan.sourceFiles[j]) < Rank(plan.sourceFiles[k])
  /\ Len(log) <= Len(plan.sourceFiles)
  /\ \A k \in 1..Len(log) : log[k].path = plan.sourceFiles[k]

\* C16 witness: three files were processed: lib/c.ts, src/a.ts, src/b.ts.
C16_Witness ==
  /\ pc = "index"
  /\ Len(log) = 3
  /\ log[1].path = C /\ log[2].path = A /\ log[3].path = B

\* C17: the loop takes the work items one by one, each once; a null
\* result puts the file in failedFiles, a text in documentedFiles, and
\* the loop goes on to the next item either way; when the loop has ended
\* every work item is in exactly one of the two lists; a run that began
\* the loop throws only after the whole list was consumed, from
\* commitAndPush.
C17_ConsumedOnce ==
  LET n == Len(plan.sourceFiles)
      inDoc(f) == \E k \in 1..Len(documentedFiles) : documentedFiles[k] = f
      inFailed(f) == \E k \in 1..Len(failedFiles) : failedFiles[k] = f
  IN /\ Len(documentedFiles) + Len(failedFiles) = Len(log)
     /\ \A k \in 1..Len(log) :
          /\ log[k].ok => (inDoc(log[k].path) /\ ~inFailed(log[k].path))
          /\ ~log[k].ok => (inFailed(log[k].path) /\ ~inDoc(log[k].path))
     /\ (plan.made /\ Len(log) < n) => pc = "generate"
     /\ (plan.made /\ pc # "generate") =>
          \A k \in 1..n : inDoc(plan.sourceFiles[k]) # inFailed(plan.sourceFiles[k])
     /\ (Thrown /\ log # <<>>) => (Len(log) = n /\ ops.called)

\* C17 witness: the loop ended over three work items, the first of which
\* failed and the other two were documented.
C17_Witness ==
  /\ pc = "index"
  /\ failedFiles = <<C>>
  /\ documentedFiles = <<A, B>>

\* the (directory, fileName) keys of the files of the last generateIndex call
NewKeys ==
  {<<DirKey(ix.documented[k]), ix.documented[k].name>> : k \in 1..Len(ix.documented)}
\* no two entries of a directory's list share a fileName
UniqueKeys(entries) ==
  \A d \in DOMAIN entries : \A j, k \in 1..Len(entries[d]) :
    j # k => entries[d][j].fileName # entries[d][k].fileName

\* C18: after every generateIndex call the index file holds one entry per
\* (directory, fileName) at most; an entry that was there keeps its place
\* in the directory's list, replaced by the new entry when its key is
\* among the newly documented files and unchanged otherwise, and the
\* unchanged ones are read back from the new file as they were read from
\* the old one.
C18_IndexUnique ==
  LET now == readExistingIndex(ix.file) IN
  ix.calls > 0 =>
    /\ UniqueKeys(now)
    /\ UniqueKeys(ix.merged)
    /\ \A key \in NewKeys :
         key[1] \in DOMAIN now /\
         \E k \in 1..Len(now[key[1]]) : now[key[1]][k].fileName = key[2]
    /\ \A d \in DOMAIN ix.before :
         /\ d \in DOMAIN ix.merged /\ d \in DOMAIN now
         /\ Len(ix.merged[d]) >= Len(ix.before[d])
         /\ \A k \in 1..Len(ix.before[d]) :
              LET old == ix.before[d][k] IN
              IF <<d, old.fileName>> \in NewKeys
              THEN /\ ix.merged[d][k].fileName = old.fileName
                   /\ \E i \in 1..Len(ix.documented) :
                        ix.merged[d][k].filePath = ix.documented[i]
              ELSE /\ ix.merged[d][k] = old
                   /\ \E j \in 1..Len(now[d]) : now[d][j] = old

\* C18 witness: the second call documented src/a.ts again, with another
\* overview, on an index that held entries for src/a and src/b.
C18_Witness ==
  /\ ix.calls = 2
  /\ ix.documented = <<A>>
  /\ <<"src">> \in DOMAIN ix.before
  /\ Len(ix.before[<<"src">>]) = 2
  /\ ix.before[<<"src">>][1].fileName = "a"
  /\ ix.before[<<"src">>][2].fileName = "b"
  /\ ix.merged[<<"src">>][1].entry # ix.before[<<"src">>][1].entry

\* C19 (as claimed): the entries handed to writeIndexFile are the entries
\* readExistingIndex reads from the text written: the same directories,
\* and in each the same {fileName, entry, filePath} records.
C19_RoundTrip ==
  ix.calls > 0 =>
    LET parsed == readExistingIndex(writeIndexFile(ix.merged, 0)) IN
    /\ DOMAIN parsed = DOMAIN ix.merged
    /\ \A d \in DOMAIN ix.merged :
         {parsed[d][k] : k \in 1..Len(parsed[d])} =
         {ix.merged[d][k] : k \in 1..Len(ix.merged[d])}

\* C20 (as claimed): when a run() call has ended, by completion, by an
\* early return or by a thrown error, its working copy is gone.
C20_WorkingCopyDestroyed ==
  Ended => ~repoDir

\* C21 (as claimed): when the diff against origin/main has been computed,
\* the merge of origin/main into the documentation branch has been made;
\* and a plan is made only after the diff, where there is one to compute.
C21_MergeBeforeDiff ==
  /\ pc = "merge" => (git.merged \/ git.mergeHead)
  /\ (plan.made /\ branchInfo.hasExistingDocs) => pc \notin {"changes", "merge"}

\* C22 (as claimed): when commitAndPush throws after a first push that
\* failed in transport, it has pulled and pushed a second time.
C22_TransientPushRetried ==
  (Thrown /\ ops.pushes # <<>> /\ ops.pushes[1] = "network") =>
    /\ Len(ops.pulls) = 1
    /\ Len(ops.pushes) >= 2

\* C23: in the run that follows a run which committed and pushed
\* documentation, the branch is found to hold documentation and
\* getLastDocumentationCommit finds a commit by the generator's signature:
\* the message of the documentation commit holds the phrase the log is
\* searched for.
C23_CommitFound ==
  /\ grepMarker \in commitMessage("doc")
  /\ (prior.committed /\ pc \in {"merge", "branched", "plan"}) =>
       lastDocsCommit = "marker"

\* C23 witness: the second run, after a first run that committed and
\* pushed, has looked the last documentation commit up.
C23_Witness ==
  /\ prior.committed /\ runs = 2
  /\ pc = "merge"
  /\ lastDocsCommit = "marker"

C25_ErrorDetailRetained ==
  /\ (Thrown /\ ops.clone # "ok") => CloneError(ops.clone) \subseteq err
  /\ (Thrown /\ Len(ops.pushes) = 3) => PushError(ops.pushes[3]) \subseteq err

\* C26 (as claimed): when a target path is given, every work item of the
\* plan lies under it, in a full scan and in an incremental update alike.
C26_WorkUnderTarget ==
  (plan.made /\ options.targetPath # <<>>) =>
    \A i \in 1..Len(plan.sourceFiles) :
      UnderTarget(plan.sourceFiles[i], options.targetPath)

\* the first non-heading, non-blank line of a documentation file, "" when
\* it has none
firstProseLine(doc) ==
  LET found == {i \in 1..Len(doc.lines) : isOverviewLine(trim(doc.lines[i]))}
  IN IF found = {} THEN "" ELSE trim(doc.lines[Least(found)])

\* C27 (as claimed): the synopsis getFileOverview returns is the first
\* non-heading, non-blank line of the documentation file, cut to 80
\* characters and "..." when longer, and the empty synopsis when the file
\* is missing or has no such line.
C27_SynopsisIsFirstProse ==
  ix.read => ix.overview = IF ix.doc.exists THEN truncate(firstProseLine(ix.doc)) ELSE ""

\* C28 (as claimed): while a generator works on its clone, the directory
\* temp-repos/<repoName> holds that clone: no other generator's
\* cloneRepository or cleanup, and no cleanup request, removes or replaces
\* it.
C28_WorkingCopyKept ==
  \A g \in Generators :
    tempRepos.gen[g].pc = "working" =>
      (tempRepos.exists /\ tempRepos.dirs[tempRepos.gen[g].repoName] = g)

C30_DistinctArtifacts ==
  ix.calls > 0 =>
    /\ \A i, j \in 1..Len(ix.documented) :
         i # j => /\ DocFile(ix.documented[i]) # DocFile(ix.documented[j])
                  /\ <<DirKey(ix.documented[i]), ix.documented[i].name>> #
                     <<DirKey(ix.documented[j]), ix.documented[j].name>>
    /\ \A i \in 1..Len(ix.documented) :
         LET d == DirKey(ix.documented[i]) IN
         /\ d \in DOMAIN ix.merged
         /\ \E k \in 1..Len(ix.merged[d]) : ix.merged[d][k].filePath = ix.documented[i]

====
